---- MODULE Spec2Model ----
(***************************************************************************)
(* The wallet session logic of depub.space: the WalletProvider component   *)
(* of packages/depub.space (walletAddress / offlineSigner / connector /    *)
(* isLoading / error React state, the AsyncStorage keys it reads and       *)
(* writes, and the WalletConnect connector objects and Keplr provider it   *)
(* drives).                                                                *)
(*                                                                         *)
(* Every async function is a task that advances from one await to the      *)
(* next; the code between two awaits is one atomic step.  A storage call   *)
(* takes effect when it is issued (AsyncStorage on the web wraps the       *)
(* synchronous localStorage call in a promise).  The WalletConnect client  *)
(* and the Keplr extension are the environment: a connector constructed    *)
(* while the 'walletconnect' session record is stored comes up connected   *)
(* with that record's peer id; approval stores the record; killSession     *)
(* and a peer disconnect clear connected and peerId, remove the record     *)
(* and emit 'disconnect'; a custom request is answered only while the      *)
(* connector is connected and is correlated by its id.  The storage may    *)
(* reject the setItem of initKepr (line 399, storage full); the writes of  *)
(* initWalletConnect and the store calls of disconnect are taken to        *)
(* succeed in Spec; FailSpec lets the store reject the calls of disconnect *)
(* as well.                                                                *)
(*                                                                         *)
(* getChainInfo and the module constants it reads are modelled apart, in   *)
(* ChainSpec, which draws NEXT_PUBLIC_CHAIN_ID from ChainEnvs; Spec runs   *)
(* the wallet logic for the mainnet chain id.                              *)
(***************************************************************************)
EXTENDS Integers, FiniteSets, Sequences, TLC

\* Bounds of the model.
MaxTasks == 2          \* async calls in flight at the same time
MaxOps == 3            \* user / peer / host events in one behaviour
MaxCalls == 2          \* calls of getChainInfo in one behaviour of ChainSpec

NULL == "null"
NoConn == 0            \* connector state null
NoHandler == -1        \* no 'disconnect' listener registered on a connector

Tasks == 1..MaxTasks
ConnIds == 1..(2 * MaxOps)
PeerIds == {"p1", "p2"}
ReqIds == {1, 2}
Docs == {"d1", "d2"}

\* KEY_CONNECTED_WALLET_TYPE values
WT_KEPLR == "keplr"
WT_WC == "likerland_app"

\* What cosmos_getAccounts can answer: [account] of the result array.
\* def = FALSE is an empty array (account undefined).
Payloads ==
    { [def |-> TRUE, addr |-> "A1", algo |-> "secp256k1", pub |-> "02ab"],
      [def |-> TRUE, addr |-> "A2", algo |-> "secp256k1", pub |-> "03cd"],
      [def |-> TRUE, addr |-> "", algo |-> "secp256k1", pub |-> "02ab"],
      [def |-> FALSE, addr |-> "", algo |-> "", pub |-> ""] }

NoAccount == [def |-> FALSE, addr |-> "", algo |-> "", pub |-> ""]

\* What keplr's offline signer can answer to getAccounts(): the first
\* account's address, "" for an empty address, "empty" for no account.
KeplrAnswers == {"K1", "K2", "", "empty"}

\* A stored item: absent, a JSON text (json) or a text JSON.parse rejects.
NoItem == [kind |-> "absent", addr |-> "", algo |-> "", pub |-> ""]

\* JSON.stringify(account) as localStorage keeps it: stringify(undefined)
\* is undefined, stored as the text "undefined".
JSONstringify(a) ==
    IF a.def
    THEN [kind |-> "json", addr |-> a.addr, algo |-> a.algo, pub |-> a.pub]
    ELSE [kind |-> "text", addr |-> "", algo |-> "", pub |-> ""]

JSONparses(item) == item.kind = "json"

JSONparse(item) ==
    [def |-> TRUE, addr |-> item.addr, algo |-> item.algo, pub |-> item.pub]

\* SignDoc.toJSON / SignDoc.fromJSON
SignDocToJSON(d) == [json |-> d]
SignDocFromJSON(j) == j.json

NoSigner == [kind |-> "none", c |-> NoConn, addr |-> NULL]
KeplrSigner(a) == [kind |-> "keplr", c |-> NoConn, addr |-> a]
WCSigner(c, a) == [kind |-> "wc", c |-> c, addr |-> a]

VARIABLES
    walletAddress,   \* useState walletAddress: NULL or an address
    offlineSigner,   \* useState offlineSigner
    connector,       \* useState connector: NoConn or a connector object
    isLoading,       \* useState isLoading
    error,           \* useState error: NULL or a message
    store,           \* AsyncStorage: wtype, blob ('walletconnect'), acct
    conns,           \* the WalletConnect objects made by this process
    keplr,           \* typeof window.keplr !== 'undefined'
    tasks,           \* the async calls in flight
    ops,             \* events so far (bounded by MaxOps)
    serial,          \* every event so far came with nothing in flight
    last,            \* the call that finished last, and how
    PUBLIC_CHAIN_ID, \* process.env.NEXT_PUBLIC_CHAIN_ID || '', as characters
    chainInfos       \* what the calls of getChainInfo() returned, in order

vars == <<walletAddress, offlineSigner, connector, isLoading, error, store,
          conns, keplr, tasks, ops, serial, last, PUBLIC_CHAIN_ID, chainInfos>>

----------------------------------------------------------------------------
\* Records

EmptyStore == [wtype |-> NULL, blob |-> NULL, acct |-> [p \in PeerIds |-> NoItem]]

NoConnector ==
    [made |-> FALSE, connected |-> FALSE, peerId |-> NULL,
     h |-> NoHandler, killing |-> FALSE]

\* the session a connect call found when it was made: nothing
NoPre == [addr |-> NULL, signer |-> NoSigner, store |-> EmptyStore]

\* got: the address the backend answered; pre: the session the call found;
\* stale: a request was issued when the session of its signer had been
\* disconnected (walletAddress null)
FreeTask ==
    [op |-> "free", pc |-> "free", c |-> NoConn, capt |-> NoConn, keys |-> {},
     acct |-> NoAccount, from |-> "none", alone |-> FALSE, disc |-> FALSE,
     wt |-> NULL, cached |-> NULL, id |-> 0, doc |-> NULL, seq |-> 0,
     late |-> NULL, expired |-> FALSE, got |-> NULL, pre |-> NoPre,
     stale |-> FALSE]

NoLast ==
    [op |-> "none", res |-> "none", from |-> "none", alone |-> FALSE,
     disc |-> FALSE, cached |-> NULL, doc |-> NULL, late |-> NULL,
     clash |-> FALSE, got |-> NULL]

InFlight(t) == tasks[t].op # "free"
Quiet == \A t \in Tasks : ~InFlight(t)
\* the slot a new task takes
FreeSlot(t) == ~InFlight(t) /\ \A u \in Tasks : u < t => InFlight(u)
SomeFreeSlot == \E t \in Tasks : ~InFlight(t)
NextSlot == CHOOSE t \in Tasks : FreeSlot(t)

\* another event starts: the calls in flight no longer run alone
Disturb(ts) == [t \in Tasks |-> [ts[t] EXCEPT !.alone = FALSE]]

\* no call and no killSession is in flight
Settled == Quiet /\ \A c \in ConnIds : ~conns[c].killing

IsConnectOp(op) == op \in {"setup", "connectWC", "connectKeplr"}

----------------------------------------------------------------------------
\* The persisted store (AsyncStorage)

AccountKeys(st) == {p \in PeerIds : st.acct[p].kind # "absent"}

\* a store that keeps no account
SetAccountNone(st, p, item) == st

SetAccount(st, p, item) == [st EXCEPT !.acct[p] = item]

\* a disconnect that leaves the account keys behind
RemoveAccountsNone(st, keys) == st

RemoveAccounts(st, keys) ==
    [st EXCEPT !.acct = [p \in PeerIds |-> IF p \in keys THEN NoItem ELSE @[p]]]

SetWalletType(st, wt) == [st EXCEPT !.wtype = wt]

\* a disconnect that leaves the wallet type behind
RemoveWalletTypeNone(st) == st

RemoveWalletType(st) == [st EXCEPT !.wtype = NULL]

RemoveSession(st) == [st EXCEPT !.blob = NULL]

\* the WalletConnect client keeps its session record under 'walletconnect'
\* (KEY_WALLET_CONNECT), in the same storage
\* a client that does not store its session record
StoreSessionNone(st, p) == st

StoreSession(st, p) == [st EXCEPT !.blob = p]

\* a killSession that leaves the session record in the storage
DropStoredSessionNone(st) == st

\* killSession removes the record
DropStoredSession(st) == [st EXCEPT !.blob = NULL]

----------------------------------------------------------------------------
\* WalletConnect connector objects

FreshConn(cs) == CHOOSE c \in ConnIds :
    ~cs[c].made /\ \A d \in ConnIds : d < c => cs[d].made

\* new WalletConnect({bridge, ...}): picks up the stored session
NewWalletConnect(st) ==
    [made |-> TRUE, connected |-> st.blob # NULL, peerId |-> st.blob,
     h |-> NoHandler, killing |-> FALSE]

\* the connector after its session ended (killSession completed, or the
\* peer disconnected)
Disconnected(cn) ==
    [cn EXCEPT !.connected = FALSE, !.peerId = NULL, !.killing = FALSE]

\* the session as a connect call finds it
Pre == [addr |-> walletAddress, signer |-> offlineSigner, store |-> store]

----------------------------------------------------------------------------
\* How a call ends

\* the call of task t returns; a connect* / setupAccount caller then runs
\* its setIsLoading(false)
Return(t, res) ==
    /\ isLoading' = IF IsConnectOp(tasks[t].op) THEN FALSE ELSE isLoading
    /\ tasks' = [tasks EXCEPT ![t] = FreeTask]
    /\ last' = [NoLast EXCEPT !.op = tasks[t].op, !.res = res,
                              !.from = tasks[t].from, !.alone = tasks[t].alone,
                              !.disc = tasks[t].disc, !.cached = tasks[t].cached,
                              !.got = tasks[t].got]

\* the call of task t throws: connect* / setupAccount catch it, setError
\* and setIsLoading(false); the keystore handler's void initKepr() drops it
Throw(t, msg) ==
    /\ error' = IF IsConnectOp(tasks[t].op) THEN msg ELSE error
    /\ isLoading' = IF IsConnectOp(tasks[t].op) THEN FALSE ELSE isLoading
    /\ tasks' = [tasks EXCEPT ![t] = FreeTask]
    /\ last' = [NoLast EXCEPT !.op = tasks[t].op, !.res = "error",
                              !.from = tasks[t].from, !.alone = tasks[t].alone,
                              !.disc = tasks[t].disc, !.cached = tasks[t].cached,
                              !.got = tasks[t].got]

----------------------------------------------------------------------------
\* initWalletConnect

\* lines 404-439, up to the first await: the connector made first goes into
\* the connector state; a connected one is killed (awaited), otherwise the
\* 'disconnect' listener is registered and connect() is awaited.  capt is
\* the connector state the disconnect() closure of this call has captured.
BeginWC(t, base, capt) ==
    LET c == FreshConn(conns)
        nc == NewWalletConnect(store)
    IN  /\ connector' = c
        /\ conns' = [conns EXCEPT ![c] =
                        IF nc.connected THEN [nc EXCEPT !.killing = TRUE]
                                        ELSE [nc EXCEPT !.h = capt]]
        /\ tasks' = [base EXCEPT ![t] =
                        [@ EXCEPT !.pc = IF nc.connected THEN "wKill" ELSE "wPair",
                                  !.c = c, !.capt = capt]]

\* connectWalletConnect (lines 536-542) into initWalletConnect
ConnectWalletConnect ==
    /\ ops < MaxOps
    /\ SomeFreeSlot
    /\ ops' = ops + 1
    /\ serial' = (serial /\ Settled)
    /\ isLoading' = TRUE
    /\ BeginWC(NextSlot,
               [Disturb(tasks) EXCEPT ![NextSlot] =
                   [FreeTask EXCEPT !.op = "connectWC", !.alone = Quiet,
                                    !.pre = Pre]],
               connector)
    /\ last' = NoLast
    /\ UNCHANGED <<walletAddress, offlineSigner, error, store, keplr, PUBLIC_CHAIN_ID, chainInfos>>

\* the account validation of lines 470-474
ValidAccount(a) == a.def /\ a.addr # "" /\ a.algo # "" /\ a.pub # ""

\* an initWalletConnect that goes on with the connector it has killed
WCKillDoneReuse(t) ==
    /\ tasks[t].pc = "wKill"
    /\ conns' = [conns EXCEPT ![tasks[t].c] = Disconnected(@)]
    /\ store' = DropStoredSession(store)
    /\ tasks' = [tasks EXCEPT ![t] = [@ EXCEPT !.pc = "wPair"]]
    /\ UNCHANGED <<walletAddress, offlineSigner, connector, isLoading, error, last, keplr, PUBLIC_CHAIN_ID, chainInfos, ops, serial>>

\* lines 418-468: the awaited killSession completes (session over, record
\* removed, 'disconnect' emitted to a connector without listener), a second
\* connector is made and gets the listener; not connected, it pairs;
\* connected, the cached account of its peer id is loaded
WCKillDone(t) ==
    /\ tasks[t].pc = "wKill"
    /\ LET c1 == tasks[t].c
           st1 == DropStoredSession(store)
           cs1 == [conns EXCEPT ![c1] = Disconnected(@)]
           c2 == FreshConn(cs1)
           nc == [NewWalletConnect(st1) EXCEPT !.h = tasks[t].capt]
       IN  /\ conns' = [cs1 EXCEPT ![c2] = nc]
           /\ IF ~nc.connected
              THEN /\ store' = st1
                   /\ tasks' = [tasks EXCEPT ![t] = [@ EXCEPT !.pc = "wPair", !.c = c2]]
                   /\ UNCHANGED <<error, isLoading, last>>
              ELSE LET item == st1.acct[nc.peerId] IN
                   IF item.kind # "absent" /\ ~JSONparses(item)
                   THEN /\ store' = st1
                        /\ Throw(t, "Unexpected token u in JSON")
                   ELSE /\ store' = IF item.kind = "absent" THEN RemoveSession(st1) ELSE st1
                        /\ tasks' = [tasks EXCEPT ![t] =
                               [@ EXCEPT !.pc = "wStored", !.c = c2,
                                         !.acct = IF item.kind = "absent" THEN NoAccount
                                                  ELSE JSONparse(item)]]
                        /\ UNCHANGED <<error, isLoading, last>>
    /\ UNCHANGED <<walletAddress, offlineSigner, connector, keplr, PUBLIC_CHAIN_ID, chainInfos, ops, serial>>

\* line 439: the peer approves the pairing; the client is connected to peer
\* p and stores its session record; lines 441-446 send cosmos_getAccounts
WCApprove(t, p) ==
    /\ tasks[t].pc = "wPair"
    /\ conns' = [conns EXCEPT ![tasks[t].c] = [@ EXCEPT !.connected = TRUE, !.peerId = p]]
    /\ store' = StoreSession(store, p)
    /\ tasks' = [tasks EXCEPT ![t] = [@ EXCEPT !.pc = "wAcct"]]
    /\ UNCHANGED <<walletAddress, offlineSigner, connector, isLoading, error, keplr, PUBLIC_CHAIN_ID, chainInfos, ops, serial, last>>

\* line 439: connect() rejects (the QR code modal is closed, the peer refuses)
WCPairReject(t) ==
    /\ tasks[t].pc = "wPair"
    /\ Throw(t, "User close QRCode Modal")
    /\ UNCHANGED <<walletAddress, offlineSigner, connector, store, conns, keplr, PUBLIC_CHAIN_ID, chainInfos, ops, serial>>

\* lines 441-453: the answer to cosmos_getAccounts arrives; its first
\* element is stored under the connector's peer id as it is
WCAccounts(t, a) ==
    /\ tasks[t].pc = "wAcct"
    /\ conns[tasks[t].c].connected
    /\ store' = SetAccount(store, conns[tasks[t].c].peerId, JSONstringify(a))
    /\ tasks' = [tasks EXCEPT ![t] =
                    [@ EXCEPT !.pc = "wStored", !.acct = a,
                              !.got = IF ValidAccount(a) THEN a.addr ELSE NULL]]
    /\ UNCHANGED <<walletAddress, offlineSigner, connector, isLoading, error, conns, keplr, PUBLIC_CHAIN_ID, chainInfos, ops, serial, last>>

\* lines 441-446: the request is answered with an error
WCAccountsError(t) ==
    /\ tasks[t].pc = "wAcct"
    /\ conns[tasks[t].c].connected
    /\ Throw(t, "cosmos_getAccounts failed")
    /\ UNCHANGED <<walletAddress, offlineSigner, connector, store, conns, keplr, PUBLIC_CHAIN_ID, chainInfos, ops, serial>>

\* lines 470-499: validate the account, build the signer over the call's
\* connector, set the state and write the wallet type
WCValidate(t) ==
    /\ tasks[t].pc = "wStored"
    /\ IF ~ValidAccount(tasks[t].acct)
       THEN /\ Return(t, "false")
            /\ UNCHANGED <<walletAddress, offlineSigner, store>>
       ELSE /\ walletAddress' = tasks[t].acct.addr
            /\ offlineSigner' = WCSigner(tasks[t].c, tasks[t].acct.addr)
            /\ store' = SetWalletType(store, WT_WC)
            /\ tasks' = [tasks EXCEPT ![t] = [@ EXCEPT !.pc = "wType"]]
            /\ UNCHANGED <<isLoading, last>>
    /\ UNCHANGED <<connector, error, conns, keplr, PUBLIC_CHAIN_ID, chainInfos, ops, serial>>

\* line 501, then the caller's setIsLoading(false)
WCFinish(t) ==
    /\ tasks[t].pc = "wType"
    /\ Return(t, "ok")
    /\ UNCHANGED <<walletAddress, offlineSigner, connector, error, store, conns, keplr, PUBLIC_CHAIN_ID, chainInfos, ops, serial>>

----------------------------------------------------------------------------
\* initKepr, connectKeplr, suggestChain

\* a connectKeplr that sets isLoading before it looks for the provider
ConnectKeplrLoadingFirst ==
    /\ ops < MaxOps
    /\ keplr => SomeFreeSlot
    /\ ops' = ops + 1
    /\ serial' = (serial /\ Settled)
    /\ isLoading' = TRUE
    /\ IF ~keplr
       THEN /\ error' = "Keplr is not available"
            /\ tasks' = Disturb(tasks)
            /\ last' = [NoLast EXCEPT !.op = "connectKeplr", !.res = "unavailable"]
       ELSE /\ tasks' = [Disturb(tasks) EXCEPT ![NextSlot] =
                            [FreeTask EXCEPT !.op = "connectKeplr", !.pc = "kSuggest",
                                             !.alone = Quiet, !.pre = Pre]]
            /\ last' = NoLast
            /\ UNCHANGED error
    /\ UNCHANGED <<walletAddress, offlineSigner, connector, store, conns, keplr, PUBLIC_CHAIN_ID, chainInfos>>

\* connectKeplr, lines 550-563, into suggestChain up to its await (line 348)
ConnectKeplr ==
    /\ ops < MaxOps
    /\ keplr => SomeFreeSlot
    /\ ops' = ops + 1
    /\ serial' = (serial /\ Settled)
    /\ IF ~keplr
       THEN /\ error' = "Keplr is not available"
            /\ tasks' = Disturb(tasks)
            /\ last' = [NoLast EXCEPT !.op = "connectKeplr", !.res = "unavailable"]
            /\ UNCHANGED isLoading
       ELSE /\ isLoading' = TRUE
            /\ tasks' = [Disturb(tasks) EXCEPT ![NextSlot] =
                            [FreeTask EXCEPT !.op = "connectKeplr", !.pc = "kSuggest",
                                             !.alone = Quiet, !.pre = Pre]]
            /\ last' = NoLast
            /\ UNCHANGED error
    /\ UNCHANGED <<walletAddress, offlineSigner, connector, store, conns, keplr, PUBLIC_CHAIN_ID, chainInfos>>

\* suggestChain, lines 348-353 (experimentalSuggestChain answers; a failure
\* is caught there), then initKepr up to keplr.enable (line 385)
KeplrSuggestDone(t, ok) ==
    /\ tasks[t].pc = "kSuggest"
    /\ error' = IF ok THEN error ELSE "suggest chain failed"
    /\ isLoading' = FALSE
    /\ tasks' = [tasks EXCEPT ![t] = [@ EXCEPT !.pc = "kEnable"]]
    /\ UNCHANGED <<walletAddress, offlineSigner, connector, store, conns, keplr, PUBLIC_CHAIN_ID, chainInfos, ops, serial, last>>

\* line 385: keplr.enable resolves or the user rejects; lines 389-392 then
\* ask for the signer and its accounts
KeplrEnable(t, ok) ==
    /\ tasks[t].pc = "kEnable"
    /\ IF ok
       THEN /\ tasks' = [tasks EXCEPT ![t] = [@ EXCEPT !.pc = "kAcct"]]
            /\ UNCHANGED <<error, isLoading, last>>
       ELSE Throw(t, "Request rejected")
    /\ UNCHANGED <<walletAddress, offlineSigner, connector, store, conns, keplr, PUBLIC_CHAIN_ID, chainInfos, ops, serial>>

\* lines 392-399: the accounts arrive; no account makes the destructuring
\* throw, an empty address returns false, otherwise the state is set and
\* the wallet type written
KeplrAccounts(t, ans) ==
    /\ tasks[t].pc = "kAcct"
    /\ IF ans = "empty"
       THEN /\ Throw(t, "Cannot read property 'address' of undefined")
            /\ UNCHANGED <<walletAddress, offlineSigner, store>>
       ELSE IF ans = ""
       THEN /\ Return(t, "false")
            /\ UNCHANGED <<walletAddress, offlineSigner, store, error>>
       ELSE /\ walletAddress' = ans
            /\ offlineSigner' = KeplrSigner(ans)
            /\ store' = SetWalletType(store, WT_KEPLR)
            /\ tasks' = [tasks EXCEPT ![t] = [@ EXCEPT !.pc = "kType", !.got = ans]]
            /\ UNCHANGED <<error, isLoading, last>>
    /\ UNCHANGED <<connector, conns, keplr, PUBLIC_CHAIN_ID, chainInfos, ops, serial>>

\* lines 392-399 for a non-empty address, the setItem of the wallet type
\* (line 399) is rejected: the state is set, nothing is stored
KeplrAccountsUnsaved(t, ans) ==
    /\ tasks[t].pc = "kAcct"
    /\ ans \notin {"empty", ""}
    /\ walletAddress' = ans
    /\ offlineSigner' = KeplrSigner(ans)
    /\ tasks' = [tasks EXCEPT ![t] = [@ EXCEPT !.pc = "kTypeErr", !.got = ans]]
    /\ UNCHANGED <<connector, isLoading, error, store, conns, keplr, PUBLIC_CHAIN_ID, chainInfos, ops, serial, last>>

\* the await of the rejected setItem (line 399) throws
SaveRejected(t) ==
    /\ tasks[t].pc = "kTypeErr"
    /\ Throw(t, "QuotaExceededError")
    /\ UNCHANGED <<walletAddress, offlineSigner, connector, store, conns, keplr, PUBLIC_CHAIN_ID, chainInfos, ops, serial>>

\* line 401, then the caller
KeplrFinish(t) ==
    /\ tasks[t].pc = "kType"
    /\ Return(t, "ok")
    /\ UNCHANGED <<walletAddress, offlineSigner, connector, error, store, conns, keplr, PUBLIC_CHAIN_ID, chainInfos, ops, serial>>

----------------------------------------------------------------------------
\* setupAccount and the mount effect

\* what the store holds for a relayed session when the process starts
StartupRecord(st) ==
    IF st.wtype = WT_KEPLR THEN "keplr"
    ELSE IF st.wtype # WT_WC THEN "none"
    ELSE IF st.blob = NULL THEN "relayed"
    ELSE IF st.acct[st.blob].kind = "absent" THEN "orphan"
    ELSE IF JSONparses(st.acct[st.blob]) /\ ValidAccount(JSONparse(st.acct[st.blob]))
    THEN "live"
    ELSE "bad"

\* the address cached for the peer id of the stored session
CachedAddress(st) ==
    IF StartupRecord(st) = "live" THEN JSONparse(st.acct[st.blob]).addr ELSE NULL

\* the task of void setupAccount() (line 574) after lines 505-513: nothing
\* when keplr is undefined, otherwise the wallet type is being read
SetupTasks(st, kp) ==
    [t \in Tasks |->
        IF kp /\ t = 1
        THEN [FreeTask EXCEPT !.op = "setup", !.pc = "sRead", !.wt = st.wtype,
                              !.from = StartupRecord(st), !.alone = TRUE,
                              !.cached = CachedAddress(st)]
        ELSE FreeTask]

SetupLast(st, kp) ==
    IF kp THEN NoLast
    ELSE [NoLast EXCEPT !.op = "setup", !.res = "skipped",
                        !.from = StartupRecord(st), !.cached = CachedAddress(st)]

\* lines 515-524 and 529-533
SetupRead(t) ==
    /\ tasks[t].pc = "sRead"
    /\ IF tasks[t].wt = WT_WC
       THEN /\ isLoading' = TRUE
            /\ BeginWC(t, tasks, NoConn)
            /\ UNCHANGED last
       ELSE IF tasks[t].wt = WT_KEPLR
       THEN /\ isLoading' = TRUE
            /\ tasks' = [tasks EXCEPT ![t] = [@ EXCEPT !.pc = "kEnable"]]
            /\ UNCHANGED <<connector, conns, last>>
       ELSE /\ Return(t, "none")
            /\ UNCHANGED <<connector, conns>>
    /\ UNCHANGED <<walletAddress, offlineSigner, error, store, keplr, PUBLIC_CHAIN_ID, chainInfos, ops, serial>>

\* the page is loaded again (or the process crashed and restarts): the
\* store stays, everything in memory starts over and the mount effect runs
Restart ==
    /\ ops < MaxOps
    /\ ops' = ops + 1
    /\ serial' = (serial /\ Settled)
    /\ walletAddress' = NULL
    /\ offlineSigner' = NoSigner
    /\ connector' = NoConn
    /\ isLoading' = FALSE
    /\ error' = NULL
    /\ conns' = [c \in ConnIds |-> NoConnector]
    /\ tasks' = SetupTasks(store, keplr)
    /\ last' = SetupLast(store, keplr)
    /\ UNCHANGED <<store, keplr, PUBLIC_CHAIN_ID, chainInfos>>

----------------------------------------------------------------------------
\* disconnect

SessionKind == IF offlineSigner.kind = "none" THEN "idle" ELSE offlineSigner.kind

\* a disconnect() call after line 359 has asked for the keys
DisconnectTask(capt, from, st, alone) ==
    [FreeTask EXCEPT !.op = "disconnect", !.pc = "dKeys", !.capt = capt,
                     !.keys = AccountKeys(st), !.from = from, !.alone = alone]

\* the connect, key-change and signDirect calls in flight when the user
\* disconnects
MarkDisconnect(ts) ==
    [t \in Tasks |-> IF IsConnectOp(ts[t].op) \/ ts[t].op \in {"sign", "keystore"}
                     THEN [ts[t] EXCEPT !.disc = TRUE] ELSE ts[t]]

\* the user calls disconnect() of the current render (lines 356-359)
DisconnectStart ==
    /\ ops < MaxOps
    /\ SomeFreeSlot
    /\ ops' = ops + 1
    /\ serial' = (serial /\ Settled)
    /\ tasks' = [MarkDisconnect(Disturb(tasks)) EXCEPT ![NextSlot] =
                    [DisconnectTask(connector, SessionKind, store, Quiet)
                        EXCEPT !.pre = Pre]]
    /\ last' = NoLast
    /\ UNCHANGED <<walletAddress, offlineSigner, connector, isLoading, error, store, conns, keplr, PUBLIC_CHAIN_ID, chainInfos>>

\* lines 360-369: the account keys of the listing and the wallet type go
DisconnectRemoveType(t) ==
    /\ tasks[t].pc = "dKeys"
    /\ store' = RemoveWalletType(RemoveAccounts(store, tasks[t].keys))
    /\ tasks' = [tasks EXCEPT ![t] = [@ EXCEPT !.pc = "dSession"]]
    /\ UNCHANGED <<walletAddress, offlineSigner, connector, isLoading, error, conns, keplr, PUBLIC_CHAIN_ID, chainInfos, ops, serial, last>>

\* line 370
DisconnectRemoveSession(t) ==
    /\ tasks[t].pc = "dSession"
    /\ store' = RemoveSession(store)
    /\ tasks' = [tasks EXCEPT ![t] = [@ EXCEPT !.pc = "dFinal"]]
    /\ UNCHANGED <<walletAddress, offlineSigner, connector, isLoading, error, conns, keplr, PUBLIC_CHAIN_ID, chainInfos, ops, serial, last>>

\* the connector the closure captured reports connected (line 372)
CapturedConnected(t) ==
    tasks[t].capt # NoConn /\ conns[tasks[t].capt].connected

\* lines 372-380: void killSession() on the captured connector, state reset
DisconnectFinish(t) ==
    /\ tasks[t].pc = "dFinal"
    /\ IF CapturedConnected(t)
       THEN /\ conns' = [conns EXCEPT ![tasks[t].capt] = [@ EXCEPT !.killing = TRUE]]
            /\ connector' = NoConn
       ELSE UNCHANGED <<conns, connector>>
    /\ walletAddress' = NULL
    /\ offlineSigner' = NoSigner
    /\ isLoading' = FALSE
    /\ error' = NULL
    /\ tasks' = [tasks EXCEPT ![t] = FreeTask]
    /\ last' = [NoLast EXCEPT !.op = "disconnect", !.res = "ok",
                              !.from = tasks[t].from, !.alone = tasks[t].alone]
    /\ UNCHANGED <<store, keplr, PUBLIC_CHAIN_ID, chainInfos, ops, serial>>

\* the store rejects getAllKeys (line 359) or the removeItem of line 370:
\* disconnect() has no try / catch, the call ends there
DisconnectStoreRejected(t) ==
    /\ tasks[t].op = "disconnect"
    /\ tasks[t].pc \in {"dKeys", "dSession"}
    /\ tasks' = [tasks EXCEPT ![t] = FreeTask]
    /\ last' = [NoLast EXCEPT !.op = "disconnect", !.res = "error",
                              !.from = tasks[t].from, !.alone = tasks[t].alone]
    /\ UNCHANGED <<walletAddress, offlineSigner, connector, isLoading, error, store, conns, keplr, PUBLIC_CHAIN_ID, chainInfos, ops, serial>>

\* the 'disconnect' listener of connector c (lines 430-434) runs
\* void disconnect() of the render its initWalletConnect call belonged to
OnDisconnect(ts, c, cs, st, from) ==
    IF cs[c].h = NoHandler THEN ts
    ELSE [ts EXCEPT ![NextSlot] =
            [DisconnectTask(cs[c].h, from, st, FALSE) EXCEPT !.pre = Pre]]

\* the killSession() that disconnect() did not await completes
KillComplete(c) ==
    /\ conns[c].killing
    /\ \A t \in Tasks : ~(tasks[t].pc = "wKill" /\ tasks[t].c = c)
    /\ conns[c].h # NoHandler => SomeFreeSlot
    /\ conns' = [conns EXCEPT ![c] = Disconnected(@)]
    /\ store' = DropStoredSession(store)
    /\ tasks' = OnDisconnect(tasks, c, conns, DropStoredSession(store), "kill")
    /\ UNCHANGED <<walletAddress, offlineSigner, connector, isLoading, error, keplr, PUBLIC_CHAIN_ID, chainInfos, ops, serial, last>>

\* the peer ends the session of connector c
PeerDisconnect(c) ==
    /\ ops < MaxOps
    /\ conns[c].connected
    /\ ~conns[c].killing
    /\ conns[c].h # NoHandler => SomeFreeSlot
    /\ ops' = ops + 1
    /\ serial' = (serial /\ Settled)
    /\ conns' = [conns EXCEPT ![c] = Disconnected(@)]
    /\ store' = DropStoredSession(store)
    /\ tasks' = OnDisconnect(Disturb(tasks), c, conns, DropStoredSession(store),
                            IF \E t \in Tasks : tasks[t].op = "sign" /\ tasks[t].c = c
                            THEN "peer+sign"
                            ELSE IF offlineSigner.kind = "wc" /\ offlineSigner.c = c
                            THEN "peer" ELSE "peer-other")
    /\ last' = NoLast
    /\ UNCHANGED <<walletAddress, offlineSigner, connector, isLoading, error, keplr, PUBLIC_CHAIN_ID, chainInfos>>

----------------------------------------------------------------------------
\* keplr_keystorechange

\* lines 576-577: the handler asks for the wallet type
KeystoreChange ==
    /\ keplr
    /\ ops < MaxOps
    /\ SomeFreeSlot
    /\ ops' = ops + 1
    /\ serial' = (serial /\ Settled)
    /\ tasks' = [Disturb(tasks) EXCEPT ![NextSlot] =
                    [FreeTask EXCEPT !.op = "keystore", !.pc = "hRead",
                                     !.wt = store.wtype, !.alone = Quiet,
                                     !.pre = Pre]]
    /\ last' = NoLast
    /\ UNCHANGED <<walletAddress, offlineSigner, connector, isLoading, error, store, conns, keplr, PUBLIC_CHAIN_ID, chainInfos>>

\* a handler that calls initKepr whatever wallet type it has read
KeystoreReadAlways(t) ==
    /\ tasks[t].pc = "hRead"
    /\ tasks' = [tasks EXCEPT ![t] = [@ EXCEPT !.pc = "kEnable"]]
    /\ UNCHANGED <<walletAddress, offlineSigner, connector, isLoading, error, store, conns, keplr, PUBLIC_CHAIN_ID, chainInfos, ops, serial, last>>

\* lines 578-583
KeystoreRead(t) ==
    /\ tasks[t].pc = "hRead"
    /\ IF tasks[t].wt = WT_KEPLR
       THEN /\ tasks' = [tasks EXCEPT ![t] = [@ EXCEPT !.pc = "kEnable"]]
            /\ UNCHANGED <<isLoading, last>>
       ELSE Return(t, "none")
    /\ UNCHANGED <<walletAddress, offlineSigner, connector, error, store, conns, keplr, PUBLIC_CHAIN_ID, chainInfos, ops, serial>>

----------------------------------------------------------------------------
\* myOfflineSigner.signDirect

SignPending(t) == tasks[t].op = "sign" /\ tasks[t].pc = "sWait"

\* the request of lines 482-487 as it goes to the peer
SignRequest(t) ==
    [id |-> tasks[t].id, method |-> "cosmos_signDirect",
     doc |-> SignDocToJSON(tasks[t].doc)]

\* the peer's answer to a request: the document it was sent, signed
SignResponse(rq) == [id |-> rq.id, signed |-> rq.doc, signature |-> rq.doc]

\* a client that hands a response to every waiting request
CorrelatesAny(respId, reqId) == TRUE

\* the client hands a response to the requests waiting for its id
Correlates(respId, reqId) == respId = reqId

\* lines 489-492: what the call returns for a response
SignResult(resp) == [signed |-> SignDocFromJSON(resp.signed), signature |-> resp.signature]

\* the calls a response of connector c resolves
Resolved(c, resp) ==
    {u \in Tasks : SignPending(u) /\ tasks[u].c = c /\ Correlates(resp.id, tasks[u].id)}

\* a caller holding the current signer calls signDirect (lines 480-487);
\* sendCustomRequest throws at once on a connector that is not connected
SignStart(d, i) ==
    /\ ops < MaxOps
    /\ offlineSigner.kind = "wc"
    /\ conns[offlineSigner.c].connected => SomeFreeSlot
    /\ ops' = ops + 1
    /\ serial' = (serial /\ Settled)
    /\ IF conns[offlineSigner.c].connected
       THEN /\ tasks' = [Disturb(tasks) EXCEPT ![NextSlot] =
                            [FreeTask EXCEPT !.op = "sign", !.pc = "sWait",
                                             !.c = offlineSigner.c, !.id = i,
                                             !.doc = d, !.seq = ops + 1]]
            /\ last' = NoLast
       ELSE /\ tasks' = Disturb(tasks)
            /\ last' = [NoLast EXCEPT !.op = "sign", !.res = "error"]
    /\ UNCHANGED <<walletAddress, offlineSigner, connector, isLoading, error, store, conns, keplr, PUBLIC_CHAIN_ID, chainInfos>>

\* the peer answers the request of call t; every call the response
\* correlates with returns (lines 489-492)
SignRespond(t) ==
    /\ SignPending(t)
    /\ conns[tasks[t].c].connected
    /\ LET resp == SignResponse(SignRequest(t))
           done == Resolved(tasks[t].c, resp)
       IN  /\ tasks' = [u \in Tasks |->
                          IF u \in done THEN FreeTask
                          ELSE IF SignPending(u) /\ tasks[u].seq < tasks[t].seq
                          THEN [tasks[u] EXCEPT !.late = tasks[t].doc]
                          ELSE tasks[u]]
           /\ last' = [NoLast EXCEPT
                        !.op = "sign",
                        !.res = IF \A u \in done : SignResult(resp).signed = tasks[u].doc
                                THEN "own" ELSE "other",
                        !.doc = tasks[t].doc,
                        !.late = tasks[t].late,
                        !.clash = \E u \in Tasks : u # t /\ SignPending(u)
                                      /\ tasks[u].c = tasks[t].c /\ tasks[u].id = tasks[t].id]
    /\ UNCHANGED <<walletAddress, offlineSigner, connector, isLoading, error, store, conns, keplr, PUBLIC_CHAIN_ID, chainInfos, ops, serial>>

\* ChannelScreen.handleOnSubmit (lines 74-80) is called in a render whose
\* offlineSigner is a relayed signer: the closure keeps that signer while
\* it awaits
SubmitStart ==
    /\ ops < MaxOps
    /\ offlineSigner.kind = "wc"
    /\ SomeFreeSlot
    /\ ops' = ops + 1
    /\ serial' = (serial /\ Settled)
    /\ tasks' = [Disturb(tasks) EXCEPT ![NextSlot] =
                    [FreeTask EXCEPT !.op = "submit", !.pc = "hFile",
                                     !.c = offlineSigner.c]]
    /\ last' = NoLast
    /\ UNCHANGED <<walletAddress, offlineSigner, connector, isLoading, error, store, conns, keplr, PUBLIC_CHAIN_ID, chainInfos>>

\* lines 82-94: the signer the closure kept is not null and goes to
\* postMessage, which signs with it: signDirect (lines 480-487) sends the
\* request over the signer's connector, or throws when that connector is
\* not connected (caught at line 107)
SubmitSign(t, d, i) ==
    /\ tasks[t].pc = "hFile"
    /\ IF conns[tasks[t].c].connected
       THEN /\ tasks' = [tasks EXCEPT ![t] =
                            [FreeTask EXCEPT !.op = "sign", !.pc = "sWait",
                                             !.c = tasks[t].c, !.id = i,
                                             !.doc = d, !.seq = ops,
                                             !.stale = (walletAddress = NULL)]]
            /\ UNCHANGED last
       ELSE /\ tasks' = [tasks EXCEPT ![t] = FreeTask]
            /\ last' = [NoLast EXCEPT !.op = "sign", !.res = "error"]
    /\ UNCHANGED <<walletAddress, offlineSigner, connector, isLoading, error, store, conns, keplr, PUBLIC_CHAIN_ID, chainInfos, ops, serial>>

\* time passes: the window a caller allots to call t is over.  The call
\* has no timer (lines 482-487 await the response alone), it goes on waiting
SignWindowElapses(t) ==
    /\ SignPending(t)
    /\ ~tasks[t].expired
    /\ tasks' = [tasks EXCEPT ![t] = [@ EXCEPT !.expired = TRUE]]
    /\ UNCHANGED <<walletAddress, offlineSigner, connector, isLoading, error, store, conns, keplr, PUBLIC_CHAIN_ID, chainInfos, ops, serial, last>>

----------------------------------------------------------------------------
\* Chain selection (lines 200-204 and 218-315)

\* Strings are sequences of characters here, so that the regular
\* expression of line 204 is computed and not assumed.
MainnetId == <<"l","i","k","e","c","o","i","n","-","m","a","i","n","n","e","t","-","2">>
TestnetId == <<"l","i","k","e","c","o","i","n","-","p","u","b","l","i","c","-",
               "t","e","s","t","n","e","t","-","3">>

\* what NEXT_PUBLIC_CHAIN_ID can be set to: a prefix, a middle and a suffix
\* (<<>> is also what line 200 makes of an unset variable)
EnvPrefixes == { <<>>, <<"l","i","k","e","c","o","i","n","-">>,
                 <<"l","i","k","e","c","o","i","n","-","p","u","b","l","i","c","-">> }
EnvMiddles == { <<"t","e","s","t","n","e","t">>, <<"m","a","i","n","n","e","t">>,
                <<"T","e","s","t","n","e","t">>, <<"t","e","s","t","-","n","e","t">>,
                <<"t","e","s","t","n","e">>, <<>> }
EnvSuffixes == { <<>>, <<"-","2">>, <<"-","3">>, <<"t">>, <<"-","f","o","r","k">> }

ChainEnvs == { p \o m \o x : p \in EnvPrefixes, m \in EnvMiddles, x \in EnvSuffixes }

\* RegExp.prototype.test for a pattern of literal characters: the pattern
\* occurs somewhere in the string
RegexTest(pat, str) ==
    \E i \in 1..(Len(str) - Len(pat) + 1) : SubSeq(str, i, i + Len(pat) - 1) = pat

\* a flag that is true only for the chain id of the testnet record
isTestnetExact == PUBLIC_CHAIN_ID = TestnetId

\* line 204: /testnet/.test(PUBLIC_CHAIN_ID)
isTestnet == RegexTest(<<"t","e","s","t","n","e","t">>, PUBLIC_CHAIN_ID)

\* lines 219-265 (gas prices in hundredths)
mainnet ==
    [chainId |-> "likecoin-mainnet-2",
     chainName |-> "LikeCoin chain",
     rpc |-> "https://mainnet-node.like.co/rpc/",
     rest |-> "https://mainnet-node.like.co",
     stakeCurrency |-> [coinDenom |-> "LIKE", coinMinimalDenom |-> "nanolike",
                        coinDecimals |-> 9, coinGeckoId |-> "likecoin"],
     walletUrlForStaking |-> "https://stake.like.co",
     coinType |-> 118,
     gasPriceStep |-> [low |-> 100, average |-> 1000, high |-> 100000],
     features |-> <<"stargate", "ibc-transfer">>]

\* lines 267-312: other ids, endpoints, denominations and gas prices, and
\* no features field
testnet ==
    [chainId |-> "likecoin-public-testnet-3",
     chainName |-> "LikeCoin public test chain",
     rpc |-> "https://likecoin-public-testnet-rpc.nnkken.dev/",
     rest |-> "https://likecoin-public-testnet-lcd.nnkken.dev/",
     stakeCurrency |-> [coinDenom |-> "EKIL", coinMinimalDenom |-> "nanoekil",
                        coinDecimals |-> 9, coinGeckoId |-> "likecoin"],
     walletUrlForStaking |-> "https://stake.like.co",
     coinType |-> 118,
     gasPriceStep |-> [low |-> 1, average |-> 100, high |-> 100000]]

\* line 314
getChainInfo == IF isTestnet THEN testnet ELSE mainnet

\* a call of getChainInfo() (as the one of line 348)
GetChainInfoCall ==
    /\ Len(chainInfos) < MaxCalls
    /\ chainInfos' = Append(chainInfos, getChainInfo)
    /\ UNCHANGED <<walletAddress, offlineSigner, connector, isLoading, error, store,
                   conns, keplr, tasks, ops, serial, last, PUBLIC_CHAIN_ID>>

\* the module is loaded with some NEXT_PUBLIC_CHAIN_ID; the provider is not
\* mounted
ChainInit ==
    /\ walletAddress = NULL
    /\ offlineSigner = NoSigner
    /\ connector = NoConn
    /\ isLoading = FALSE
    /\ error = NULL
    /\ store = EmptyStore
    /\ conns = [c \in ConnIds |-> NoConnector]
    /\ keplr = FALSE
    /\ tasks = [t \in Tasks |-> FreeTask]
    /\ ops = 0
    /\ serial = TRUE
    /\ last = NoLast
    /\ PUBLIC_CHAIN_ID \in ChainEnvs
    /\ chainInfos = <<>>

ChainNext == GetChainInfoCall

ChainSpec == ChainInit /\ [][ChainNext]_vars

----------------------------------------------------------------------------
\* The specification

\* the provider mounts for the first time: nothing stored (lines 334-338, 574)
Init ==
    /\ walletAddress = NULL
    /\ offlineSigner = NoSigner
    /\ connector = NoConn
    /\ isLoading = FALSE
    /\ error = NULL
    /\ store = EmptyStore
    /\ conns = [c \in ConnIds |-> NoConnector]
    /\ keplr \in BOOLEAN
    /\ tasks = SetupTasks(EmptyStore, keplr)
    /\ ops = 0
    /\ serial = TRUE
    /\ last = SetupLast(EmptyStore, keplr)
    /\ PUBLIC_CHAIN_ID = MainnetId
    /\ chainInfos = <<>>

Next ==
    \/ ConnectWalletConnect
    \/ ConnectKeplr
    \/ DisconnectStart
    \/ KeystoreChange
    \/ Restart
    \/ \E d \in Docs, i \in ReqIds : SignStart(d, i)
    \/ SubmitStart
    \/ \E c \in ConnIds : KillComplete(c)
    \/ \E c \in ConnIds : PeerDisconnect(c)
    \/ \E t \in Tasks :
        \/ SetupRead(t)
        \/ WCKillDone(t)
        \/ \E p \in PeerIds : WCApprove(t, p)
        \/ WCPairReject(t)
        \/ \E a \in Payloads : WCAccounts(t, a)
        \/ WCAccountsError(t)
        \/ WCValidate(t)
        \/ WCFinish(t)
        \/ \E ok \in BOOLEAN : KeplrSuggestDone(t, ok)
        \/ \E ok \in BOOLEAN : KeplrEnable(t, ok)
        \/ \E ans \in KeplrAnswers : KeplrAccounts(t, ans)
        \/ KeplrFinish(t)
        \/ \E ans \in KeplrAnswers : KeplrAccountsUnsaved(t, ans)
        \/ SaveRejected(t)
        \/ DisconnectRemoveType(t)
        \/ DisconnectRemoveSession(t)
        \/ DisconnectFinish(t)
        \/ KeystoreRead(t)
        \/ SignRespond(t)
        \/ \E d \in Docs, i \in ReqIds : SubmitSign(t, d, i)
        \/ SignWindowElapses(t)

Spec == Init /\ [][Next]_vars

\* the same, with a store that may reject the calls of disconnect
FailNext ==
    \/ Next
    \/ \E t \in Tasks : DisconnectStoreRejected(t)

FailSpec == Init /\ [][FailNext]_vars

----------------------------------------------------------------------------
\* Properties

Connected == walletAddress # NULL
Idle == walletAddress = NULL /\ ~isLoading /\ error = NULL
SignerAbsent == offlineSigner = NoSigner
StoreClean == store.wtype = NULL /\ store.blob = NULL /\ AccountKeys(store) = {}
RelayLive == \E c \in ConnIds : conns[c].connected
RelayCached == store.blob # NULL \/ AccountKeys(store) # {}
UserDisconnect == last.op = "disconnect" /\ last.from \in {"idle", "keplr", "wc"}
\* a pending signDirect call whose connector is closed: nothing will answer it
Abandoned(t) == SignPending(t) /\ ~conns[tasks[t].c].connected

\* C1: once the connect / disconnect calls made so far have finished, at
\* most one backend is active (an Injected session has no live relay
\* connector, session record or account cache beside it, a Relayed session
\* has no Injected wallet type persisted) and the signer is present exactly
\* when walletAddress is set.
C1_SingleActiveSession ==
    (serial /\ Settled) =>
        /\ (offlineSigner # NoSigner) <=> Connected
        /\ offlineSigner.kind = "keplr" => ~RelayLive /\ ~RelayCached
        /\ offlineSigner.kind = "wc" => store.wtype # WT_KEPLR

\* C2: a disconnect() the user called with nothing else in flight, from
\* Idle, an Injected or a Relayed session, leaves walletAddress null,
\* isLoading false, error null, no signer, and no wallet type, session
\* record or account-cache key in the store.
C2_DisconnectClearsState ==
    (UserDisconnect /\ last.alone) => Idle /\ SignerAbsent /\ StoreClean

\* C2 witness: such a disconnect of a Relayed session has finished and is
\* killing the session it found connected.
C2_Witness ==
    /\ UserDisconnect /\ last.alone /\ last.from = "wc"
    /\ \E c \in ConnIds : conns[c].killing

\* C3: a startup that finds wallet type Relayed, a live session record and
\* a valid cached account for its peer id restores without killing the
\* session and without pairing, and ends Connected with the cached address.
C3_RestoreIdempotence ==
    /\ \A t \in Tasks :
         (serial /\ keplr /\ tasks[t].op = "setup" /\ tasks[t].from = "live")
            => tasks[t].pc \notin {"wKill", "wPair", "wAcct"}
    /\ (serial /\ keplr /\ last.op = "setup" /\ last.from = "live")
            => last.res = "ok" /\ walletAddress = last.cached

\* C4: when the cleanup triggered by a peer disconnect that came while a
\* signDirect call was pending has finished, the state is Idle and no
\* signDirect call of the lost session is still pending (each was rejected).
C4_PeerDisconnectPropagation ==
    (last.op = "disconnect" /\ last.from = "peer+sign")
        => walletAddress = NULL /\ \A t \in Tasks : ~Abandoned(t)

\* C5: no state has a signDirect call that will never be answered (its
\* connector is closed) while the session of that connector is still the
\* Connected one.
C5_NoAbandonedWhileConnected ==
    \A t \in Tasks :
        Abandoned(t) => ~(Connected /\ offlineSigner = WCSigner(tasks[t].c, walletAddress))

\* C6: a connectKeplr / connectWalletConnect during which the user called
\* disconnect() has, once both (and the killSession disconnect() started)
\* have finished, left no session: Idle, no
\* signer, no wallet type and no account cache persisted.
C6_DisconnectCancelsConnect ==
    (last.op \in {"connectWC", "connectKeplr"} /\ last.disc /\ Settled)
        => /\ walletAddress = NULL
           /\ SignerAbsent
           /\ store.wtype = NULL
           /\ AccountKeys(store) = {}

C8_TimeoutIsolation ==
    \A t \in Tasks : SignPending(t) => ~tasks[t].expired

\* C9: a startup that finds a Relayed record failing validation (the cached
\* account of the stored session is unparseable or lacks a field) ends
\* without a session and without an error thrown to the caller.
C9_CorruptStorageFallback ==
    (serial /\ last.op = "setup" /\ last.from = "bad")
        => walletAddress = NULL /\ SignerAbsent /\ ~isLoading

\* C10: a startup that finds a wallet type in the store has attempted the
\* restoration of that wallet type when it reports Idle, whether or not the
\* injected provider is there.
C10_RestoreAttempted ==
    (serial /\ last.op = "setup" /\ last.from # "none") => last.res # "skipped"

\* C11: a startup restoration that failed (the provider's enable was
\* rejected, the pairing or the handshake failed, the account was invalid)
\* ends Idle with no error reported: walletAddress null, no signer, error
\* null and isLoading false.
C11_RestoreFailureSilent ==
    (serial /\ last.op = "setup" /\ last.res \in {"error", "false"})
        => walletAddress = NULL /\ SignerAbsent /\ error = NULL /\ ~isLoading

\* C12: a connectKeplr call made while the injected provider is undefined
\* sets the error 'Keplr is not available' and changes nothing else: no
\* call is started (no enable), isLoading, walletAddress, the signer, the
\* connector and the store stay as they were.
C12_UnavailableChangesNothing ==
    [][(~keplr /\ ops' = ops + 1 /\ last'.op = "connectKeplr")
        => /\ error' = "Keplr is not available"
           /\ last'.res = "unavailable"
           /\ UNCHANGED <<walletAddress, offlineSigner, connector, isLoading, store, conns>>
           /\ \A t \in Tasks : tasks'[t].op = tasks[t].op /\ tasks'[t].pc = tasks[t].pc]_vars

\* C12 witness: connectKeplr has failed for want of the provider while a
\* session was Connected.
C12_Witness ==
    /\ last.op = "connectKeplr" /\ last.res = "unavailable"
    /\ error = "Keplr is not available"
    /\ walletAddress # NULL

\* C13: a connectKeplr call whose enable and account fetch answered a
\* non-empty address ends with walletAddress that address, the signer the
\* provider's signer for it and the wallet type 'keplr' persisted; it does
\* not end Connected without the persisted wallet type.
C13_InjectedConnectPersists ==
    (serial /\ last.op = "connectKeplr" /\ last.got # NULL)
        => /\ walletAddress = last.got
           /\ offlineSigner = KeplrSigner(last.got)
           /\ store.wtype = WT_KEPLR

\* C14: a connectWalletConnect call whose pairing was approved and whose
\* cosmos_getAccounts answer carried address, algo and public key ends
\* Connected over its connected connector with walletAddress the answered
\* address, wallet type 'likerland_app' persisted and the account stored
\* under the key of the connector's peer id.
C14_RelayedConnectSuccess ==
    (serial /\ last.op = "connectWC" /\ last.got # NULL)
        => /\ last.res = "ok"
           /\ walletAddress = last.got
           /\ offlineSigner.kind = "wc"
           /\ offlineSigner.addr = last.got
           /\ conns[offlineSigner.c].connected
           /\ store.wtype = WT_WC
           /\ conns[offlineSigner.c].peerId \in PeerIds
           /\ JSONparses(store.acct[conns[offlineSigner.c].peerId])
           /\ JSONparse(store.acct[conns[offlineSigner.c].peerId]).addr = last.got

\* C14 witness: such a call has ended Connected over a connector that
\* replaced the stale one it killed first.
C14_Witness ==
    /\ serial /\ last.op = "connectWC" /\ last.got # NULL
    /\ offlineSigner.kind = "wc"
    /\ connector # offlineSigner.c

\* the connectWalletConnect call that finished last failed in the handshake
HandshakeFailed ==
    /\ last.op = "connectWC"
    /\ \/ last.res = "false"
       \/ last.res = "error" /\ error = "cosmos_getAccounts failed"

\* C15: a connectWalletConnect call whose handshake failed (the
\* cosmos_getAccounts request errored, or its answer was empty or lacked
\* address, algo or public key) ends with error set and with no connector
\* left connected.
C15_HandshakeFailureSurfaced ==
    (serial /\ HandshakeFailed)
        => error # NULL /\ \A c \in ConnIds : ~conns[c].connected

\* the step in which the connect call of task t ends with result res
ConnectEnds(t, res) ==
    /\ tasks[t].op \in {"connectWC", "connectKeplr"}
    /\ tasks'[t].op = "free"
    /\ last'.op = tasks[t].op
    /\ last'.res \in res

\* C16: when a connectKeplr / connectWalletConnect call fails, the state it
\* leaves is either without session (walletAddress null, no signer) or the
\* session the call found, unchanged: same walletAddress, same signer, the
\* signer's connector still connected, the store as it was; and a connect
\* call that succeeds ends Connected.
C16_FailedConnectStable ==
    [][\A t \in Tasks :
        /\ (serial /\ ConnectEnds(t, {"error", "false"}))
             => \/ walletAddress' = NULL /\ offlineSigner' = NoSigner
                \/ /\ walletAddress' = tasks[t].pre.addr
                   /\ offlineSigner' = tasks[t].pre.signer
                   /\ store' = tasks[t].pre.store
                   /\ offlineSigner'.kind = "wc" => conns'[offlineSigner'.c].connected
        /\ (serial /\ ConnectEnds(t, {"ok"}))
             => walletAddress' # NULL /\ offlineSigner' # NoSigner]_vars

\* the session disconnect() task t found was a Relayed one whose connector
\* (the one its signer sends over) held the session of the stored record,
\* the newest session of the process
ServedBy(t, c) ==
    /\ tasks[t].pre.signer.kind = "wc"
    /\ tasks[t].pre.signer.c = c
    /\ tasks[t].pre.store.blob # NULL
    /\ tasks[t].pre.store.blob = conns[c].peerId
    /\ \A d \in ConnIds : d > c => ~conns[d].connected

\* C17: when a disconnect() the user called on a Relayed session finishes,
\* every call so far having been made with nothing else in flight, the
\* connector that served the session (also when it replaced a stale one
\* that was killed at the start of the connect) is closed or being killed.
C17_DisconnectKillsTransport ==
    [][\A t \in Tasks : \A c \in ConnIds :
        (/\ serial
         /\ tasks[t].op = "disconnect" /\ tasks[t].from = "wc"
         /\ tasks[t].pc = "dFinal" /\ tasks'[t].op = "free"
         /\ ServedBy(t, c))
            => (conns'[c].connected => conns'[c].killing)]_vars

\* C18: when a disconnect() the user called has finished, no signDirect
\* call that was in flight when it was called is still pending.
C18_DisconnectCancelsSigns ==
    UserDisconnect => \A t \in Tasks : ~(SignPending(t) /\ tasks[t].disc)

\* C19: every pending cosmos_signDirect request was issued while the
\* session of its signer was Connected; none was issued, through a signer
\* a handler had kept, after the session had been disconnected.
C19_SignOnlyWhileConnected ==
    \A t \in Tasks : SignPending(t) => ~tasks[t].stale

\* C20: when the cleanup that a peer's disconnect of the active Relayed
\* session set off has finished, the state is Idle, the signer is absent
\* and wallet type, session record and account-cache keys are removed.
C20_PeerDisconnectCleanup ==
    (serial /\ last.op = "disconnect" /\ last.from = "peer")
        => Idle /\ SignerAbsent /\ StoreClean

\* C20 witness: the peer ended the only session, with nothing in flight,
\* and the listener's disconnect() has finished.
C20_Witness ==
    /\ serial /\ last.op = "disconnect" /\ last.from = "peer"
    /\ \E c \in ConnIds : conns[c].made /\ ~conns[c].connected /\ conns[c].h # NoHandler

\* the step in which the keystore-change handling of task t ends
KeystoreEnds(t) == tasks[t].op = "keystore" /\ tasks'[t].op = "free"

\* C21: a keplr_keystorechange event that comes while the session is an
\* Injected one (nothing else in flight) fetches the accounts again, and
\* when the provider answers an account the session is updated in place:
\* walletAddress and signer are that account's, the persisted wallet type
\* is still 'keplr'.
C21_KeystoreChangeUpdates ==
    [][\A t \in Tasks :
        (serial /\ KeystoreEnds(t) /\ tasks[t].pre.signer.kind = "keplr")
            => /\ last'.res # "none"
               /\ last'.got # NULL =>
                    /\ walletAddress' = last'.got
                    /\ offlineSigner' = KeplrSigner(last'.got)
                    /\ store'.wtype = WT_KEPLR]_vars

\* the step in which connectKeplr task t ends on an answer without account
\* or with an empty address
NoAccountsEnds(t) ==
    /\ tasks[t].op = "connectKeplr"
    /\ tasks[t].pc = "kAcct"
    /\ tasks'[t].op = "free"

\* C22: a connectKeplr call whose provider answers no account, or an
\* account with an empty address, ends with error set, with the session
\* (walletAddress, signer) as the call found it and with nothing written
\* to the store.
C22_NoAccountsSurfaced ==
    [][\A t \in Tasks :
        (serial /\ NoAccountsEnds(t))
            => /\ error' # NULL
               /\ walletAddress' = tasks[t].pre.addr
               /\ offlineSigner' = tasks[t].pre.signer
               /\ store' = tasks[t].pre.store]_vars

\* a connector that came up connected when it was made: it is killed and
\* gets no 'disconnect' listener
CameUpConnected(c) == conns[c].made /\ conns[c].h = NoHandler

\* C24: a connector that came up connected at the start of
\* initWalletConnect is killed and serves nothing afterwards: the call
\* pairs, handshakes and builds its signer over the connector made after
\* the kill, and no signDirect request goes over the killed one.
C24_StaleTransportNotReused ==
    \A c \in ConnIds :
        CameUpConnected(c)
            => /\ offlineSigner.c # c
               /\ \A t \in Tasks : tasks[t].c = c => tasks[t].pc = "wKill"
               /\ ~conns[c].killing => ~conns[c].connected

\* C24 witness: a signDirect request is pending over the connector of a
\* session whose connect call killed a stale connector first.
C24_Witness ==
    /\ connector # NoConn
    /\ CameUpConnected(connector)
    /\ offlineSigner.kind = "wc"
    /\ offlineSigner.c > connector
    /\ \E t \in Tasks : SignPending(t) /\ tasks[t].c = offlineSigner.c

\* C25: while a connectKeplr / connectWalletConnect call made with nothing
\* else in flight is in progress, isLoading is true.
C25_LoadingWhileConnecting ==
    \A t \in Tasks :
        (serial /\ tasks[t].op \in {"connectWC", "connectKeplr"}) => isLoading

\* the store holds a session record and no cached account for its peer id
OrphanRecord(st) == st.blob # NULL /\ st.acct[st.blob].kind = "absent"

\* the call of task t found an orphan session record
FoundOrphan(t) ==
    \/ tasks[t].op = "setup" /\ tasks[t].from = "orphan"
    \/ tasks[t].op = "connectWC" /\ OrphanRecord(tasks[t].pre.store)

\* C26: a startup restoration or connectWalletConnect call that finds a
\* live session record without a cached account for its peer id does not
\* pair in that call; the startup ends without a session and with the
\* session record removed.
C26_OrphanSessionDiscarded ==
    /\ \A t \in Tasks :
         (serial /\ FoundOrphan(t)) => tasks[t].pc \notin {"wPair", "wAcct"}
    /\ (serial /\ last.op = "setup" /\ last.from = "orphan")
            => walletAddress = NULL /\ store.blob = NULL

\* a cached account a restoration can use
ValidItem(item) == JSONparses(item) /\ ValidAccount(JSONparse(item))

\* C27: after a startup that found a Relayed record failing validation and
\* ended without a session, the persisted wallet type and the failing
\* cached account are gone from the store.
C27_InvalidSessionDestroyed ==
    (serial /\ last.op = "setup" /\ last.from = "bad"
            /\ last.res \in {"error", "false"})
        => /\ store.wtype = NULL
           /\ \A p \in PeerIds :
                store.acct[p].kind # "absent" => ValidItem(store.acct[p])

\* the step of task t that follows the completed kill of a connector whose
\* peer id has a cached account JSON.parse rejects
KillDoneOverCorrupt(t) ==
    /\ tasks[t].pc = "wKill"
    /\ tasks'[t].pc # "wKill"
    /\ ops' = ops
    /\ conns[tasks[t].c].peerId # NULL
    /\ store.acct[conns[tasks[t].c].peerId].kind = "text"

\* C28: a cached account that cannot be deserialized is treated like an
\* absent one, at startup and in connectWalletConnect: the call goes on to
\* a fresh pairing and error is left as it was.
C28_UnreadableTreatedAbsent ==
    [][\A t \in Tasks :
        KillDoneOverCorrupt(t)
            => /\ tasks'[t].pc = "wPair"
               /\ tasks'[t].op = tasks[t].op
               /\ error' = error]_vars

\* C28 witness: a startup that found an undeserializable cached account
\* for the stored session is waiting for a fresh pairing, error null.
C28_Witness ==
    \E t \in Tasks :
        /\ tasks[t].op = "setup"
        /\ tasks[t].from = "bad"
        /\ tasks[t].pc = "wPair"
        /\ error = NULL
        /\ \A p \in PeerIds : store.acct[p].kind \in {"absent", "text"}

\* C29: every account-cache entry in the store is a complete account.
C29_CacheOnlyComplete ==
    \A p \in PeerIds :
        store.acct[p].kind # "absent" => ValidItem(store.acct[p])

\* C30: a startup (also one after a crash between the store writes of a
\* connect or a disconnect) that nothing else disturbed ends without a
\* session, with the Injected session, or with a Relayed session whose
\* address is the one cached for the peer id of the live session record
\* and whose connector is connected to that peer.
C30_CrashConsistency ==
    (last.op = "setup" /\ last.alone /\ walletAddress # NULL)
        => \/ last.from = "keplr" /\ offlineSigner.kind = "keplr"
           \/ /\ offlineSigner.kind = "wc"
              /\ conns[offlineSigner.c].connected
              /\ store.blob # NULL
              /\ conns[offlineSigner.c].peerId = store.blob
              /\ JSONparses(store.acct[store.blob])
              /\ JSONparse(store.acct[store.blob]).addr = walletAddress

\* C30 witness: the process stopped after a connect had stored its session
\* record and before it cached the account; the startup that followed
\* ended with a Relayed session.
C30_Witness ==
    /\ ~serial
    /\ last.op = "setup"
    /\ last.alone
    /\ last.from = "orphan"
    /\ last.res = "ok"
    /\ offlineSigner.kind = "wc"

\* the chain id designates the testnet: the letters t,e,s,t,n,e,t stand
\* one after the other somewhere in it
DesignatesTestnet ==
    LET word == <<"t","e","s","t","n","e","t">>
    IN  \E i \in 1..Len(PUBLIC_CHAIN_ID) :
            \A k \in 1..Len(word) :
                /\ i + k - 1 <= Len(PUBLIC_CHAIN_ID)
                /\ PUBLIC_CHAIN_ID[i + k - 1] = word[k]

\* C23: every call of getChainInfo returns the testnet record when
\* NEXT_PUBLIC_CHAIN_ID holds "testnet" and the mainnet record otherwise
\* (also when the variable is unset); the two records differ, and all
\* calls of one process return the same record.
C23_ChainInfoFixed ==
    /\ mainnet # testnet
    /\ \A i \in 1..Len(chainInfos) :
         /\ chainInfos[i] \in {mainnet, testnet}
         /\ chainInfos[i] = testnet <=> DesignatesTestnet
         /\ chainInfos[i] = chainInfos[1]

\* C23 witness: getChainInfo was called twice under a chain id that holds
\* "testnet" and is not the id of the testnet record.
C23_Witness ==
    /\ Len(chainInfos) = MaxCalls
    /\ DesignatesTestnet
    /\ PUBLIC_CHAIN_ID # TestnetId
    /\ chainInfos[MaxCalls] = testnet

\* C31: the cosmos_signDirect requests waiting for an answer on one
\* connector carry ids that differ from one another.
C31_DistinctCorrelationIds ==
    \A t, u \in Tasks :
        (t # u /\ SignPending(t) /\ SignPending(u) /\ tasks[t].c = tasks[u].c)
            => tasks[t].id # tasks[u].id

\* the step in which the disconnect() started by the 'disconnect' event of
\* a connector that does not carry the current session ends, the current
\* session being another one
StaleDisconnectEnds(t) ==
    /\ tasks[t].op = "disconnect"
    /\ tasks[t].from = "peer-other"
    /\ tasks[t].pre.signer.kind # "none"
    /\ tasks'[t].op = "free"
    /\ ops' = ops

\* C32: the 'disconnect' event of a connector that is not the one of the
\* current session (nothing else in flight) leaves walletAddress, the
\* signer and the persisted wallet type of the current session as they
\* were.
C32_StaleDisconnectIgnored ==
    [][\A t \in Tasks :
        (serial /\ StaleDisconnectEnds(t))
            => /\ walletAddress' = tasks[t].pre.addr
               /\ offlineSigner' = tasks[t].pre.signer
               /\ store'.wtype = tasks[t].pre.store.wtype]_vars

\* the backend the persisted wallet type names
PersistedKind ==
    IF store.wtype = WT_KEPLR THEN "keplr"
    ELSE IF store.wtype = WT_WC THEN "wc" ELSE "idle"

\* C33: when nothing is in flight and the call that finished last is a
\* connect or a disconnect that ran to its end, the persisted wallet type
\* names the backend of the session in memory, and none is persisted when
\* there is no session.
C33_StoreMemoryAgree ==
    (Settled /\ last.op \in {"connectKeplr", "connectWC", "disconnect"}
             /\ last.res = "ok")
        => PersistedKind = SessionKind

\* a step of the key-change handling of task t, which read wallet type
\* 'keplr' and was in flight when the user called disconnect(); that
\* disconnect() has ended and left no session and no wallet type
KeystoreStepAfterDisconnect(t) ==
    /\ tasks[t].op = "keystore"
    /\ tasks[t].disc
    /\ \A u \in Tasks : tasks[u].op \notin {"disconnect", "connectKeplr", "connectWC", "setup"}
    /\ walletAddress = NULL /\ SignerAbsent /\ store.wtype = NULL
    /\ ops' = ops

\* C34: the handling of a key-change event that read wallet type 'keplr'
\* before a disconnect() that has ended meanwhile does not create a
\* session again: its steps leave walletAddress null, the signer absent
\* and no wallet type persisted.
C34_KeystoreRaceNoSession ==
    [][\A t \in Tasks :
        KeystoreStepAfterDisconnect(t)
            => walletAddress' = NULL /\ offlineSigner' = NoSigner
               /\ store'.wtype = NULL]_vars

\* C35: when a connectKeplr / connectWalletConnect call made with nothing
\* else in flight has ended with its session set up, error is null.
C35_ConnectedWithoutError ==
    (serial /\ last.op \in {"connectKeplr", "connectWC"} /\ last.res = "ok"
            /\ walletAddress # NULL)
        => error = NULL

\* C36: a disconnect() of the user, made with nothing else in flight, in
\* which a store call was rejected has still torn the session down:
\* walletAddress is null and the signer is absent.
C36_DisconnectSurvivesStoreFailure ==
    (UserDisconnect /\ last.alone /\ last.res = "error")
        => walletAddress = NULL /\ SignerAbsent

\* task t handles a key-change event that read a wallet type other than
\* 'keplr' ('likerland_app' or none)
KeystoreOther(ts, t) == ts[t].op = "keystore" /\ ts[t].wt # WT_KEPLR

\* C37: a key-change event that finds wallet type 'likerland_app' or none
\* changes nothing: neither the step that receives it nor the step that
\* ends its handling changes walletAddress, the signer, isLoading, error
\* or the store, and the handling ends there, without a call of the
\* injected provider.
C37_KeystoreOtherNoEffect ==
    [][\A t \in Tasks :
        /\ (~KeystoreOther(tasks, t) /\ KeystoreOther(tasks', t))
                => /\ UNCHANGED <<walletAddress, offlineSigner, isLoading, error, store>>
                   /\ tasks'[t].pc = "hRead"
        /\ (KeystoreOther(tasks, t) /\ ops' = ops /\ tasks'[t] # tasks[t])
                => /\ UNCHANGED <<walletAddress, offlineSigner, isLoading, error, store>>
                   /\ tasks'[t].op = "free"
                   /\ last'.op = "keystore" /\ last'.res = "none"]_vars

\* C37 witness: a key-change event that came during a Relayed session has
\* been handled; the session and 'likerland_app' are there.
C37_Witness ==
    /\ last.op = "keystore"
    /\ last.res = "none"
    /\ last.alone
    /\ offlineSigner.kind = "wc"
    /\ walletAddress # NULL
    /\ store.wtype = WT_WC

====
